---- MODULE Spec2Model ----
(***************************************************************************)
(* Model of electroncash_gui/qt/consolidate_coins_dialog.py: the           *)
(* ConsolidateWorker (a QObject living in its own QThread), the            *)
(* ConsolidateCoinsWizard that creates, starts and interrupts it, and the  *)
(* TransactionsPage that receives its signals.                             *)
(*                                                                         *)
(* Threads.  The wizard and its pages live in the UI thread.  The worker   *)
(* is moved to its own QThread, so build_transactions runs in that thread  *)
(* and each signal it emits towards a UI object is a queued connection: the*)
(* emission posts an event to the UI thread's event queue (`queue`), and   *)
(* the slot runs later, when the UI thread's event loop delivers it.       *)
(*                                                                         *)
(* Runs.  Each time the transactions page becomes current the wizard       *)
(* replaces its QThread and its ConsolidateWorker by new ones: a run.      *)
(* Runs are numbered 1, 2, ...; tx_thread is the number of the wizard's    *)
(* current run and the worker variables are the fields of self.worker.     *)
(* A replaced thread has ended (see StartThread), so of an earlier run     *)
(* only the events still in the queue remain.                              *)
(***************************************************************************)
EXTENDS Integers, Sequences, FiniteSets, Bags, TLC

\* Bounds of the model: the runs a behaviour starts, and the items the
\* consolidator's iterator yields at most.
MaxRuns == 2
MaxTx == 2

\* QWizard page ids: addPage() numbers the pages 0, 1, 2; -1 is "no page".
NoPage == -1
CoinsPageId == 0
OutputPageId == 1
TxPageId == 2

\* class TransactionsStatus
TransactionsStatus ==
    {"INTERRUPTED", "NOT_STARTED", "SELECTING", "BUILDING", "FINISHED", "NO_RESULT"}

VARIABLES
    opened,
    currentPage,
    uiPc,
    tx_thread,
    transactions,
    status,
    cursor,
    queue,
    aborted,
    running,
    quitReq,
    pc,
    drawn,
    acc,
    do_interrupt,
    interrupt,
    mutex,
    emitted,
    reqAt,
    same_address_rb,
    single_address_rb,
    address_text,
    output_address,
    nextEnabled,
    filter_by_min_value_cb,
    minimum_value_sb,
    filter_by_max_value_cb,
    maximum_value_sb,
    min_value_sats,
    max_value_sats,
    dialogOpen,
    filename,
    is_dirty,
    tx_batch,
    tx_batch_signed_count,
    chunks_processed,
    chunks_total,
    final_metadata_txn_created,
    sign_button,
    upload_button,
    prev_hash,
    file_receiver_visible,
    file_receiver_e,
    message,
    signing,
    sign_result,
    overlapped,
    stack

(***************************************************************************)
(* UI thread:                                                              *)
(*   opened        the wizard has been shown                               *)
(*   currentPage   QWizard.currentId()                                     *)
(*   uiPc          position of the UI thread inside on_page_changed        *)
(*   tx_thread     the run ConsolidateCoinsWizard.tx_thread and .worker    *)
(*                 belong to; 0 is None                                    *)
(*   transactions  ConsolidateCoinsWizard.transactions                     *)
(*   status        TransactionsPage.status                                 *)
(*   cursor        cursor of the TransactionsPage: "arrow" or "wait"       *)
(*   queue         events posted to the UI thread, in posting order        *)
(*   aborted       the process was aborted                                 *)
(* self.tx_thread, the QThread:                                            *)
(*   running       "none" (not created), "running", "finished"             *)
(*   quitReq       quit() was called                                       *)
(* self.worker, the ConsolidateWorker:                                     *)
(*   pc            position inside build_transactions                      *)
(*   drawn         items drawn from consolidator.iter_transactions()       *)
(*   acc           the local list `transactions` of build_transactions     *)
(*   do_interrupt  the local of was_interruption_requested                 *)
(*   interrupt     ConsolidateWorker.interrupt                             *)
(*   mutex         ConsolidateWorker.interrupt_mutex: "free", "ui",        *)
(*                 "worker"                                                *)
(* history of the current run (observation only, read by no guard):        *)
(*   emitted       the signals the worker emitted so far, in order         *)
(*   reqAt         where the worker was when interrupt was first set:      *)
(*                 "none" (never set), "between" (between two items) or    *)
(*                 "within" (any other place), and the number k of items   *)
(*                 drawn by then                                           *)
(* OutputsPage (UI thread):                                                *)
(*   same_address_rb    the radio button "Same address as inputs"          *)
(*   single_address_rb  the radio button "Single address"                  *)
(*   address_text       the text of output_address_edit                    *)
(*   output_address     OutputsPage.output_address                         *)
(*   nextEnabled        the wizard's Next button as QWizard set it at the  *)
(*                      page's last completeChanged                        *)
(* CoinSelectionPage (UI thread):                                          *)
(*   filter_by_min_value_cb, filter_by_max_value_cb  the two check boxes   *)
(*   minimum_value_sb, maximum_value_sb  the decimals the two spin boxes   *)
(*                      show, in BCH with 8 decimals: [bch, sat] stands    *)
(*                      for bch + sat / 10^8                               *)
(* the arguments of the last ConsolidateWorker constructed:                *)
(*   min_value_sats, max_value_sats  <<>> for None, <<a>> for the amount   *)
(*                      a = [bch, sat] of bch * 10^8 + sat satoshis        *)
(***************************************************************************)
uiVars == <<opened, currentPage, uiPc, tx_thread, transactions, status, cursor,
            queue, aborted>>
threadVars == <<running, quitReq>>
workerVars == <<pc, drawn, acc, do_interrupt, interrupt, mutex>>
histVars == <<emitted, reqAt>>
outputVars == <<same_address_rb, single_address_rb, address_text,
                output_address, nextEnabled>>
filterVars == <<filter_by_min_value_cb, minimum_value_sb,
                filter_by_max_value_cb, maximum_value_sb>>
consolidatorVars == <<min_value_sats, max_value_sats>>
wizardVars == <<uiVars, threadVars, workerVars, histVars, outputVars,
                filterVars, consolidatorVars>>

(***************************************************************************)
(* BitcoinFilesUploadDialog (src/gui/qt/bfp_upload_file_dialog.py), a      *)
(* dialog of its own; all of it runs in the UI thread:                     *)
(*   dialogOpen     the dialog is shown (close() was not called)           *)
(*   filename       self.filename: None, "" (file dialog cancelled) or a   *)
(*                  file                                                   *)
(*   is_dirty, tx_batch, tx_batch_signed_count, chunks_processed,          *)
(*   chunks_total, final_metadata_txn_created                              *)
(*                  the attributes of these names (the batch attributes    *)
(*                  do not exist before the first make_dirty or            *)
(*                  select_file, and nothing reads them before)            *)
(*   sign_button, upload_button   the button is enabled                    *)
(*   prev_hash, file_receiver_e   the texts of these line edits            *)
(*   file_receiver_visible        file_receiver_e is visible               *)
(*   message        the message box shown by the handler that ran last,    *)
(*                  "" if it showed none                                   *)
(*   signing        the signing requests handed to main_window.sign_tx     *)
(*                  whose callback has not run: a bag of [chunks],         *)
(*                  chunks being the file whose chunks the callback's      *)
(*                  closure holds                                          *)
(*   stack          the handlers of the dialog that are suspended in a     *)
(*                  nested event loop, the one suspended last at the end   *)
(* history (observation only, read by no guard):                           *)
(*   sign_result    how the signing ended whose callback sign_done ran     *)
(*                  last: "success" or "failure"; "" when the handler that *)
(*                  ran last was another one                               *)
(*   overlapped     since the batch was last reset, a sign_txns ran on a   *)
(*                  batch that was not empty or while a signing request    *)
(*                  was outstanding, or the reset happened while one was   *)
(***************************************************************************)
batchVars == <<tx_batch, tx_batch_signed_count, chunks_processed,
               chunks_total, final_metadata_txn_created>>
fieldVars == <<prev_hash, file_receiver_visible, file_receiver_e>>
uploadVars == <<dialogOpen, filename, is_dirty, batchVars, sign_button,
                upload_button, fieldVars, message, signing, sign_result,
                overlapped, stack>>
vars == <<wizardVars, uploadVars>>

\* The k-th transaction produced by the iterator of run w.
Tx(w, k) == <<w, k>>

\* Signals of the ConsolidateWorker of run w, as events.
StatusEv(w, s) == [run |-> w, sig |-> "status_changed", st |-> s, n |-> 0, txs |-> <<>>]
ProgressEv(w, k) == [run |-> w, sig |-> "progress", st |-> "", n |-> k, txs |-> <<>>]
ReadyEv(w, l) == [run |-> w, sig |-> "transactions_ready", st |-> "", n |-> 0, txs |-> l]
FinishedEv(w) == [run |-> w, sig |-> "finished", st |-> "", n |-> 0, txs |-> <<>>]

\* Python's None.
None == "None"

\* The address of the coins to consolidate (inputs_address).
InputsAddress == "inputs"

\* reqAt of a worker whose interrupt flag was never set.
NotRequested == [at |-> "none", k |-> 0]

\* Optional[int]: None, and an amount.
NoValue == <<>>
Some(amount) == <<amount>>

\* The values the spin boxes are given in CoinSelectionPage.__init__, line
\* 216 and 236: 0.00000546 and 21,000,000 BCH.
DefaultMinimum == [bch |-> 0, sat |-> 546]
DefaultMaximum == [bch |-> 21000000, sat |-> 0]

Init ==
    /\ opened = FALSE
    /\ currentPage = NoPage
    /\ uiPc = "idle"
    /\ tx_thread = 0
    /\ transactions = <<>>
    /\ status = "NOT_STARTED"
    /\ cursor = "arrow"
    /\ queue = <<>>
    /\ aborted = FALSE
    /\ running = "none"
    /\ quitReq = FALSE
    /\ pc = "none"
    /\ drawn = 0
    /\ acc = <<>>
    /\ do_interrupt = FALSE
    /\ interrupt = FALSE
    /\ mutex = "free"
    /\ emitted = <<>>
    /\ reqAt = NotRequested
    /\ same_address_rb = TRUE
    /\ single_address_rb = FALSE
    /\ address_text = ""
    /\ output_address = None
    /\ nextEnabled = TRUE
    /\ filter_by_min_value_cb = FALSE
    /\ minimum_value_sb = DefaultMinimum
    /\ filter_by_max_value_cb = FALSE
    /\ maximum_value_sb = DefaultMaximum
    /\ min_value_sats = NoValue
    /\ max_value_sats = NoValue
    /\ dialogOpen = TRUE
    /\ filename = None
    /\ is_dirty = FALSE
    /\ tx_batch = <<>>
    /\ tx_batch_signed_count = 0
    /\ chunks_processed = 0
    /\ chunks_total = 0
    /\ final_metadata_txn_created = FALSE
    /\ sign_button = FALSE
    /\ upload_button = FALSE
    /\ prev_hash = ""
    /\ file_receiver_visible = FALSE
    /\ file_receiver_e = ""
    /\ message = ""
    /\ signing = EmptyBag
    /\ sign_result = ""
    /\ overlapped = FALSE
    /\ stack = <<>>

(***************************************************************************)
(* ConsolidateWorker (the worker's thread)                                 *)
(***************************************************************************)

\* pyqtSignal.emit from the worker thread: the event is posted to the UI
\* thread's queue (queued connection); `emitted` records it.
Emit(ev) ==
    /\ queue' = Append(queue, ev)
    /\ emitted' = Append(emitted, ev)

\* The worker's thread is executing.
Executing == ~aborted /\ running = "running"

\* Mutant of CanLock: lock() returns although the mutex is held.
CanLock_NoWait == TRUE

\* QMutex.lock() returns only when nobody holds the mutex.
CanLock == mutex = "free"

\* Mutant of ProgressValue: the enumerate index itself is emitted.
ProgressValue_Index(i) == i

\* The value passed to progress.emit for the item with enumerate index i.
ProgressValue(i) == i + 1

\* Mutant of Accumulate: the new transaction is put in front.
Accumulate_Prepend(l, tx) == <<tx>> \o l

\* The list after transactions.append(tx).
Accumulate(l, tx) == Append(l, tx)

\* Mutant of WStart: the flag is polled before the loop.
WStart_CheckFirst ==
    /\ Executing /\ pc = "start"
    /\ IF interrupt
       THEN /\ Emit(StatusEv(tx_thread, "INTERRUPTED"))
            /\ pc' = "fin"
       ELSE /\ Emit(StatusEv(tx_thread, "BUILDING"))
            /\ pc' = "iter"
    /\ acc' = <<>>
    /\ UNCHANGED <<opened, currentPage, uiPc, tx_thread, transactions, status,
                   cursor, aborted, threadVars, drawn, do_interrupt,
                   interrupt, mutex, reqAt>>
    /\ UNCHANGED <<outputVars, filterVars, consolidatorVars, uploadVars>>

\* Line 87-88: status_changed.emit(BUILDING); transactions = [].
WStart ==
    /\ Executing /\ pc = "start"
    /\ Emit(StatusEv(tx_thread, "BUILDING"))
    /\ acc' = <<>>
    /\ pc' = "iter"
    /\ UNCHANGED <<opened, currentPage, uiPc, tx_thread, transactions, status,
                   cursor, aborted, threadVars, drawn, do_interrupt,
                   interrupt, mutex, reqAt>>
    /\ UNCHANGED <<outputVars, filterVars, consolidatorVars, uploadVars>>

\* Line 89, the for statement asking the iterator for its next item: the
\* external iterator yields an item, is exhausted, or raises (the exception
\* leaves build_transactions: nothing in it catches).
WNext ==
    /\ Executing /\ pc = "iter"
    /\ \/ /\ drawn < MaxTx
          /\ drawn' = drawn + 1
          /\ pc' = "lock"
       \/ /\ pc' = "after"
          /\ UNCHANGED drawn
       \/ /\ pc' = "raised"
          /\ UNCHANGED drawn
    /\ UNCHANGED <<uiVars, threadVars, acc, do_interrupt, interrupt, mutex,
                   histVars>>
    /\ UNCHANGED <<outputVars, filterVars, consolidatorVars, uploadVars>>

\* Mutant of ReadFlag: the flag is never seen set.
ReadFlag_Stale == FALSE

\* Line 71: the value read from self.interrupt.
ReadFlag == interrupt

\* Line 70-71: interrupt_mutex.lock(); do_interrupt = self.interrupt.
WLockRead ==
    /\ Executing /\ pc = "lock"
    /\ CanLock
    /\ mutex' = "worker"
    /\ do_interrupt' = ReadFlag
    /\ pc' = "unlock"
    /\ UNCHANGED <<uiVars, threadVars, drawn, acc, interrupt, histVars>>
    /\ UNCHANGED <<outputVars, filterVars, consolidatorVars, uploadVars>>

\* Line 72-73: interrupt_mutex.unlock(); return do_interrupt.
WUnlock ==
    /\ Executing /\ pc = "unlock"
    /\ mutex' = "free"
    /\ pc' = "check"
    /\ UNCHANGED <<uiVars, threadVars, drawn, acc, do_interrupt, interrupt,
                   histVars>>
    /\ UNCHANGED <<outputVars, filterVars, consolidatorVars, uploadVars>>

\* Mutant of WCheck: on interruption the loop is left with break instead of
\* finished.emit() and return, so the code after the loop runs.
WCheck_Break ==
    /\ Executing /\ pc = "check"
    /\ IF do_interrupt
       THEN /\ Emit(StatusEv(tx_thread, "INTERRUPTED"))
            /\ pc' = "after"
            /\ UNCHANGED acc
       ELSE /\ acc' = Accumulate(acc, Tx(tx_thread, drawn))
            /\ Emit(ProgressEv(tx_thread, ProgressValue(drawn - 1)))
            /\ pc' = "iter"
    /\ UNCHANGED <<opened, currentPage, uiPc, tx_thread, transactions, status,
                   cursor, aborted, threadVars, drawn, do_interrupt,
                   interrupt, mutex, reqAt>>
    /\ UNCHANGED <<outputVars, filterVars, consolidatorVars, uploadVars>>

\* Line 90-91 and 94-95: the if on the returned value; either
\* status_changed.emit(INTERRUPTED), or transactions.append(tx) and
\* progress.emit(i + 1), i being the enumerate index of the item.
WCheck ==
    /\ Executing /\ pc = "check"
    /\ IF do_interrupt
       THEN /\ Emit(StatusEv(tx_thread, "INTERRUPTED"))
            /\ pc' = "fin"
            /\ UNCHANGED acc
       ELSE /\ acc' = Accumulate(acc, Tx(tx_thread, drawn))
            /\ Emit(ProgressEv(tx_thread, ProgressValue(drawn - 1)))
            /\ pc' = "iter"
    /\ UNCHANGED <<opened, currentPage, uiPc, tx_thread, transactions, status,
                   cursor, aborted, threadVars, drawn, do_interrupt,
                   interrupt, mutex, reqAt>>
    /\ UNCHANGED <<outputVars, filterVars, consolidatorVars, uploadVars>>

\* Line 97-98: if transactions: status_changed.emit(FINISHED).
WAfter ==
    /\ Executing /\ pc = "after"
    /\ IF acc # <<>>
       THEN Emit(StatusEv(tx_thread, "FINISHED"))
       ELSE UNCHANGED <<queue, emitted>>
    /\ pc' = "ready"
    /\ UNCHANGED <<opened, currentPage, uiPc, tx_thread, transactions, status,
                   cursor, aborted, threadVars, drawn, acc, do_interrupt,
                   interrupt, mutex, reqAt>>
    /\ UNCHANGED <<outputVars, filterVars, consolidatorVars, uploadVars>>

\* Line 101: transactions_ready.emit(transactions).
WReady ==
    /\ Executing /\ pc = "ready"
    /\ Emit(ReadyEv(tx_thread, acc))
    /\ pc' = "fin"
    /\ UNCHANGED <<opened, currentPage, uiPc, tx_thread, transactions, status,
                   cursor, aborted, threadVars, drawn, acc, do_interrupt,
                   interrupt, mutex, reqAt>>
    /\ UNCHANGED <<outputVars, filterVars, consolidatorVars, uploadVars>>

\* Line 92-93 and line 102: finished.emit(), then build_transactions returns.
WFinished ==
    /\ Executing /\ pc = "fin"
    /\ Emit(FinishedEv(tx_thread))
    /\ pc' = "done"
    /\ UNCHANGED <<opened, currentPage, uiPc, tx_thread, transactions, status,
                   cursor, aborted, threadVars, drawn, acc, do_interrupt,
                   interrupt, mutex, reqAt>>
    /\ UNCHANGED <<outputVars, filterVars, consolidatorVars, uploadVars>>

\* The positions of a worker that is inside build_transactions.
InsideBuild == {"start", "iter", "lock", "unlock", "check", "after", "ready", "fin"}

\* The QThread: build_transactions is the slot of `started`; once it has
\* returned (or raised) the thread runs its event loop, which ends when
\* quit() was called.  isRunning() is False from then on.
ThreadExit ==
    /\ Executing
    /\ pc \notin InsideBuild
    /\ quitReq
    /\ running' = "finished"
    /\ UNCHANGED <<uiVars, quitReq, workerVars, histVars>>
    /\ UNCHANGED <<outputVars, filterVars, consolidatorVars, uploadVars>>

(***************************************************************************)
(* ConsolidateCoinsWizard and TransactionsPage (UI thread)                 *)
(***************************************************************************)

\* The UI thread is between two events: no handler is executing.
UiIdle == ~aborted /\ uiPc = "idle"

\* Mutant of ThreadIsRunning: the thread is never found running.
ThreadIsRunning_Never == FALSE

\* stop_thread_if_running's condition, line 167.
ThreadIsRunning == tx_thread # 0 /\ running = "running"

\* TransactionsPage.update_status(s), line 354-364, on a page whose cursor
\* is cur: BUILDING shows the wait cursor (display_work_in_progress), then
\* the status is stored.  (The label text and the completeChanged emission
\* change no state of the model.)
UpdateStatus(cur, s) ==
    [status |-> s, cursor |-> IF s = "BUILDING" THEN "wait" ELSE cur]

\* Mutant of SetUnsignedTransactions: the empty list is not told apart.
SetUnsignedTransactions_NoEmptyCheck(st, txs) ==
    [status |-> st, cursor |-> "arrow"]

\* TransactionsPage.set_unsigned_transactions(txs), line 369-374, on a page
\* whose status is st: unsetCursor(), and update_status(NO_RESULT) for an
\* empty list.  (set_transactions only changes the display widget.)
SetUnsignedTransactions(st, txs) ==
    IF txs = <<>>
    THEN UpdateStatus("arrow", "NO_RESULT")
    ELSE [status |-> st, cursor |-> "arrow"]

\* TransactionsPage.isComplete, line 376-377.
IsComplete == status = "FINISHED"

\* Where the worker is, as seen when its interrupt flag is set, and the
\* number of items it has drawn by then.
RequestAt ==
    IF pc \in {"start", "iter"}
    THEN [at |-> "between", k |-> drawn]
    ELSE [at |-> "within", k |-> drawn]

(***************************************************************************)
(* CoinSelectionPage: the value filters                                    *)
(***************************************************************************)

\* Bound of the model: the spin boxes show the amounts of 0 .. MaxSats
\* satoshis and the two default values.
MaxSats == 6

\* The factor of line 18.
sats_to_BCH_conv_factor == 100000000

\* The significand of an IEEE 754 double has 53 binary digits; the numbers
\* below are held as sequences of binary digits, most significant first,
\* or of hexadecimal digits, and amounts as bch * 10^8 + sat with
\* sat < 10^8, since a satoshi amount is wider than an integer of the
\* model.
DoubleBits == 53
HexBits == 4
HexBase == 16

\* The number of hexadecimal digits after the point that holds DoubleBits + 1
\* significant binary digits of every amount of 10^-8 or more.
FractionDigits == 20

\* The hexadecimal digits of the natural number n.
RECURSIVE HexOf(_)
HexOf(n) == IF n = 0 THEN <<>> ELSE Append(HexOf(n \div HexBase), n % HexBase)

\* The binary digits of the hexadecimal digits h.
BitsOfHex(h) ==
    [i \in 1 .. HexBits * Len(h) |->
        (h[(i - 1) \div HexBits + 1] \div 2 ^ (HexBits - 1 - ((i - 1) % HexBits))) % 2]

\* The hexadecimal digits of the binary digits `bits`.
HexOfBits(bits) ==
    LET pad == (HexBits - (Len(bits) % HexBits)) % HexBits
        bit(i) == IF i <= pad THEN 0 ELSE bits[i - pad]
    IN [k \in 1 .. (Len(bits) + pad) \div HexBits |->
           8 * bit(HexBits * k - 3) + 4 * bit(HexBits * k - 2)
             + 2 * bit(HexBits * k - 1) + bit(HexBits * k)]

\* The binary digits `bits` without leading zeros.
Normalized(bits) ==
    IF \A i \in 1 .. Len(bits) : bits[i] = 0
    THEN <<>>
    ELSE SubSeq(bits,
                CHOOSE i \in 1 .. Len(bits) :
                    bits[i] = 1 /\ \A j \in 1 .. i - 1 : bits[j] = 0,
                Len(bits))

\* bits + 1.
Increment(bits) ==
    IF \A i \in 1 .. Len(bits) : bits[i] = 1
    THEN <<1>> \o [i \in 1 .. Len(bits) |-> 0]
    ELSE LET last == CHOOSE i \in 1 .. Len(bits) :
                         bits[i] = 0 /\ \A j \in i + 1 .. Len(bits) : bits[j] = 1
         IN [i \in 1 .. Len(bits) |->
                IF i < last THEN bits[i] ELSE IF i = last THEN 1 ELSE 0]

\* IEEE 754 round-half-to-even of the digits `bits` (no leading zero) to
\* DoubleBits significant digits; sticky tells that the exact value has
\* non-zero digits after `bits`.  The result: the digits kept and the number
\* of digits dropped.
RoundToDouble(bits, sticky) ==
    IF Len(bits) <= DoubleBits
    THEN [m |-> bits, dropped |-> 0]
    ELSE LET kept == SubSeq(bits, 1, DoubleBits)
             rest == \E i \in DoubleBits + 2 .. Len(bits) : bits[i] = 1
             up == /\ bits[DoubleBits + 1] = 1
                   /\ (rest \/ sticky \/ kept[DoubleBits] = 1)
         IN [m |-> IF up THEN Increment(kept) ELSE kept,
             dropped |-> Len(bits) - DoubleBits]

\* The hexadecimal digit d put before the digits of `rest`.
ExpandStep(d, rest) == [digits |-> <<d>> \o rest.digits, sticky |-> rest.sticky]

\* The first `count` hexadecimal digits of r / 10^8 after the point, r < 10^8,
\* and whether a remainder is left after them.
RECURSIVE Expand(_, _)
Expand(r, count) ==
    IF count = 0
    THEN [digits |-> <<>>, sticky |-> r # 0]
    ELSE ExpandStep((HexBase * r) \div sats_to_BCH_conv_factor,
                    Expand((HexBase * r) % sats_to_BCH_conv_factor, count - 1))

\* QDoubleSpinBox.value() when the box shows the decimal amount.bch.amount.sat
\* (8 decimals): the double nearest to it, as its digits m and the number of
\* them that stand after the binary point.
SpinBoxValue(amount) ==
    LET e == Expand(amount.sat, FractionDigits)
        r == RoundToDouble(Normalized(BitsOfHex(HexOf(amount.bch) \o e.digits)),
                           e.sticky)
    IN [m |-> r.m, fraction |-> HexBits * FractionDigits - r.dropped]

\* c * h for a natural c < 10^8 + 1 and hexadecimal digits h: the digits are
\* multiplied from the least significant one, with carry.
RECURSIVE Times(_, _, _)
Times(c, h, carry) ==
    IF h = <<>>
    THEN HexOf(carry)
    ELSE Append(Times(c, SubSeq(h, 1, Len(h) - 1), (carry + c * h[Len(h)]) \div HexBase),
                (carry + c * h[Len(h)]) % HexBase)

\* A step of Amount: the amount a, times 16, plus the digit d.
AmountStep(a, d) ==
    [bch |-> HexBase * a.bch + (HexBase * a.sat + d) \div sats_to_BCH_conv_factor,
     sat |-> (HexBase * a.sat + d) % sats_to_BCH_conv_factor]

\* The natural number with the hexadecimal digits h, as bch * 10^8 + sat.
RECURSIVE Amount(_)
Amount(h) ==
    IF h = <<>>
    THEN [bch |-> 0, sat |-> 0]
    ELSE AmountStep(Amount(SubSeq(h, 1, Len(h) - 1)), h[Len(h)])

\* int(sats_to_BCH_conv_factor * value), line 258 and 266: the product of
\* the factor and the double, rounded to a double, then truncated.
ToSatoshis(amount) ==
    IF amount.bch = 0 /\ amount.sat = 0
    THEN amount
    ELSE LET v == SpinBoxValue(amount)
             p == RoundToDouble(
                      Normalized(BitsOfHex(
                          Times(sats_to_BCH_conv_factor, HexOfBits(v.m), 0))),
                      FALSE)
             fraction == v.fraction - p.dropped
         IN IF fraction >= Len(p.m) THEN [bch |-> 0, sat |-> 0]
            ELSE IF fraction <= 0 THEN Amount(HexOfBits(p.m))
            ELSE Amount(HexOfBits(SubSeq(p.m, 1, Len(p.m) - fraction)))

\* get_minimum_value, line 253-259.
GetMinimumValue ==
    IF ~filter_by_min_value_cb THEN NoValue ELSE Some(ToSatoshis(minimum_value_sb))

\* get_maximum_value, line 261-267.
GetMaximumValue ==
    IF ~filter_by_max_value_cb THEN NoValue ELSE Some(ToSatoshis(maximum_value_sb))

\* on_page_changed, line 151-152: the values of the two filters are passed
\* to the ConsolidateWorker, which passes them to the AddressConsolidator.
PassFilters ==
    /\ min_value_sats' = GetMinimumValue
    /\ max_value_sats' = GetMaximumValue

\* The amounts a spin box shows in the model.
Amounts ==
    {[bch |-> 0, sat |-> s] : s \in 0 .. MaxSats} \cup {DefaultMinimum, DefaultMaximum}

\* The user clicks filter_by_min_value_cb; toggled enables or disables the
\* spin box (line 218).
ToggleMinFilter ==
    /\ filter_by_min_value_cb' = ~filter_by_min_value_cb
    /\ UNCHANGED <<minimum_value_sb, filter_by_max_value_cb, maximum_value_sb>>
    /\ UNCHANGED <<uiVars, threadVars, workerVars, histVars, outputVars,
                   consolidatorVars, uploadVars>>

\* The user clicks filter_by_max_value_cb (line 238).
ToggleMaxFilter ==
    /\ filter_by_max_value_cb' = ~filter_by_max_value_cb
    /\ UNCHANGED <<filter_by_min_value_cb, minimum_value_sb, maximum_value_sb>>
    /\ UNCHANGED <<uiVars, threadVars, workerVars, histVars, outputVars,
                   consolidatorVars, uploadVars>>

\* The user enters an amount in minimum_value_sb, which is enabled while its
\* check box is checked.
SetMinimumValue(amount) ==
    /\ filter_by_min_value_cb
    /\ amount # minimum_value_sb
    /\ minimum_value_sb' = amount
    /\ UNCHANGED <<filter_by_min_value_cb, filter_by_max_value_cb, maximum_value_sb>>
    /\ UNCHANGED <<uiVars, threadVars, workerVars, histVars, outputVars,
                   consolidatorVars, uploadVars>>

\* The user enters an amount in maximum_value_sb.
SetMaximumValue(amount) ==
    /\ filter_by_max_value_cb
    /\ amount # maximum_value_sb
    /\ maximum_value_sb' = amount
    /\ UNCHANGED <<filter_by_min_value_cb, minimum_value_sb, filter_by_max_value_cb>>
    /\ UNCHANGED <<uiVars, threadVars, workerVars, histVars, outputVars,
                   consolidatorVars, uploadVars>>

\* The filters are read for a new worker, as on_page_changed does at line
\* 151-152.
ReadFilters ==
    /\ PassFilters
    /\ UNCHANGED <<uiVars, threadVars, workerVars, histVars, outputVars,
                   filterVars, uploadVars>>

\* The coin selection page, its user, and the reading of its filters.
NextFilters ==
    \/ ToggleMinFilter
    \/ ToggleMaxFilter
    \/ \E amount \in Amounts : SetMinimumValue(amount)
    \/ \E amount \in Amounts : SetMaximumValue(amount)
    \/ ReadFilters

SpecFilters == Init /\ [][NextFilters]_vars

\* on_page_changed from line 141 on, for the page p that became current; q
\* tells whether stop_thread_if_running has just called quit().
\* When the page is the transactions page the status is reset and a new
\* QThread and ConsolidateWorker replace the wizard's previous ones, and the
\* thread is started.  The worker's constructor emits SELECTING before any
\* slot is connected, so that emission reaches nobody.
\* The assignment of line 143 drops the wizard's previous QThread object,
\* which Python then destroys.  stop_thread_if_running has called quit() but
\* has not waited, so the thread can still be running, and Qt aborts the
\* process when a running QThread is destroyed ("QThread: Destroyed while
\* thread is still running").  When the thread has left its event loop by
\* then, the new thread is started.
StartThread(p, q) ==
    IF p = TxPageId
    THEN /\ status' = UpdateStatus(cursor, "NOT_STARTED").status
         /\ cursor' = UpdateStatus(cursor, "NOT_STARTED").cursor
         /\ \/ /\ ThreadIsRunning
               /\ aborted' = TRUE
               /\ quitReq' = q
               /\ UNCHANGED <<tx_thread, running, pc, drawn, acc,
                              do_interrupt, interrupt, histVars,
                              consolidatorVars>>
            \/ /\ ~ThreadIsRunning
               /\ tx_thread < MaxRuns
               /\ tx_thread' = tx_thread + 1
               /\ running' = "running"
               /\ quitReq' = FALSE
               /\ pc' = "start"
               /\ drawn' = 0
               /\ acc' = <<>>
               /\ do_interrupt' = FALSE
               /\ interrupt' = FALSE
               /\ emitted' = <<>>
               /\ reqAt' = NotRequested
               /\ PassFilters
               /\ UNCHANGED aborted
    ELSE /\ quitReq' = q
         /\ UNCHANGED <<status, cursor, aborted, tx_thread, running, pc,
                        drawn, acc, do_interrupt, interrupt, histVars,
                        consolidatorVars>>

\* The pages the user can make current from page c: Next, Back, or closing
\* the dialog (QWizard emits currentIdChanged(-1) when it is reset).
Reachable(c) ==
    {q \in {c - 1, c + 1} : q \in {CoinsPageId, OutputPageId, TxPageId}}
        \cup {NoPage}

\* The texts the user enters in output_address_edit, and those of them that
\* are valid addresses.
AddressTexts == {"", "addr1"}
ValidAddressTexts == {"addr1"}

\* Address.from_string(text): the address, or AddressError.
AddressFromString(text) ==
    IF text \in ValidAddressTexts
    THEN [ok |-> TRUE, address |-> text]
    ELSE [ok |-> FALSE, address |-> None]

\* Mutant of ValidateAddress: an AddressError leaves output_address as it is.
ValidateAddress_KeepPrevious(previous_address, address_text_) ==
    IF AddressFromString(address_text_).ok
    THEN AddressFromString(address_text_).address
    ELSE previous_address

\* OutputsPage.validate_address, line 313-318: the new output_address.
ValidateAddress(previous_address, address_text_) ==
    IF AddressFromString(address_text_).ok
    THEN AddressFromString(address_text_).address
    ELSE None

\* OutputsPage.isComplete, line 322-323, for the given field values.
OutputsIsComplete(single, address) == ~single \/ address # None

\* OutputsPage.get_output_address, line 325-330.
GetOutputAddress ==
    IF same_address_rb THEN InputsAddress ELSE output_address

\* The user clicks one of the two radio buttons of the outputs page, which
\* are exclusive; when that changes single_address_rb its toggled signal
\* enables or disables the line edit and emits completeChanged (line
\* 309-310), on which QWizard asks isComplete and sets its Next button.
ClickRadio(single) ==
    /\ UiIdle /\ currentPage = OutputPageId
    /\ single_address_rb # single
    /\ single_address_rb' = single
    /\ same_address_rb' = ~single
    /\ nextEnabled' = OutputsIsComplete(single, output_address)
    /\ UNCHANGED <<address_text, output_address>>
    /\ UNCHANGED <<uiVars, threadVars, workerVars, histVars, filterVars,
                   consolidatorVars, uploadVars>>

\* The user changes the text of output_address_edit, which is enabled while
\* single_address_rb is checked: textChanged runs validate_address, line
\* 313-320; completeChanged is emitted only when output_address changed.
EditAddress(text) ==
    /\ UiIdle /\ currentPage = OutputPageId
    /\ single_address_rb
    /\ text # address_text
    /\ address_text' = text
    /\ output_address' = ValidateAddress(output_address, text)
    /\ nextEnabled' =
         IF output_address' # output_address
         THEN OutputsIsComplete(single_address_rb, output_address')
         ELSE nextEnabled
    /\ UNCHANGED <<same_address_rb, single_address_rb>>
    /\ UNCHANGED <<uiVars, threadVars, workerVars, histVars, filterVars,
                   consolidatorVars, uploadVars>>

\* The wizard's Next button can be pressed: CoinSelectionPage is always
\* complete (it does not override isComplete), the outputs page when QWizard
\* last found it complete.
CanGoNext == currentPage = OutputPageId => nextEnabled

\* QWizard shows its first page: currentIdChanged(0), so on_page_changed(0);
\* no thread exists yet.
Show ==
    /\ UiIdle /\ ~opened
    /\ opened' = TRUE
    /\ currentPage' = CoinsPageId
    /\ UNCHANGED <<uiPc, tx_thread, transactions, status, cursor, queue,
                   aborted, threadVars, workerVars, histVars>>
    /\ UNCHANGED <<outputVars, filterVars, consolidatorVars, uploadVars>>

\* on_page_changed(p), line 135-164, up to the point where
\* request_interruption has to take the mutex; when no thread is running the
\* handler runs to its end.
OnPageChanged(p) ==
    /\ UiIdle /\ opened /\ currentPage # NoPage
    /\ p \in Reachable(currentPage)
    /\ p = currentPage + 1 => CanGoNext
    /\ currentPage' = p
    /\ IF ThreadIsRunning
       THEN /\ uiPc' = "request"
            /\ UNCHANGED <<status, cursor, aborted, tx_thread, threadVars,
                           pc, drawn, acc, do_interrupt, interrupt, histVars,
                           consolidatorVars>>
       ELSE /\ StartThread(p, quitReq)
            /\ UNCHANGED uiPc
    /\ UNCHANGED <<opened, transactions, queue, mutex>>
    /\ UNCHANGED <<outputVars, filterVars, uploadVars>>

\* request_interruption, line 82-83: interrupt_mutex.lock();
\* self.interrupt = True.
RequestLockWrite ==
    /\ ~aborted /\ uiPc = "request"
    /\ CanLock
    /\ mutex' = "ui"
    /\ interrupt' = TRUE
    /\ uiPc' = "unlock"
    /\ reqAt' = IF interrupt THEN reqAt ELSE RequestAt
    /\ UNCHANGED <<opened, currentPage, tx_thread, transactions, status,
                   cursor, queue, aborted, threadVars, pc, drawn, acc,
                   do_interrupt, emitted>>
    /\ UNCHANGED <<outputVars, filterVars, consolidatorVars, uploadVars>>

\* request_interruption, line 84: interrupt_mutex.unlock().
RequestUnlock ==
    /\ ~aborted /\ uiPc = "unlock"
    /\ mutex' = "free"
    /\ uiPc' = "quit"
    /\ UNCHANGED <<opened, currentPage, tx_thread, transactions, status,
                   cursor, queue, aborted, threadVars, pc, drawn, acc,
                   do_interrupt, interrupt, histVars>>
    /\ UNCHANGED <<outputVars, filterVars, consolidatorVars, uploadVars>>

\* stop_thread_if_running, line 169: tx_thread.quit().
StopThreadQuit ==
    /\ ~aborted /\ uiPc = "quit"
    /\ quitReq' = TRUE
    /\ uiPc' = "rest"
    /\ UNCHANGED <<opened, currentPage, tx_thread, transactions, status,
                   cursor, queue, aborted, running, workerVars, histVars>>
    /\ UNCHANGED <<outputVars, filterVars, consolidatorVars, uploadVars>>

\* on_page_changed from line 141 on, after stop_thread_if_running has
\* returned.
PageChangedRest ==
    /\ ~aborted /\ uiPc = "rest"
    /\ StartThread(currentPage, quitReq)
    /\ uiPc' = "idle"
    /\ UNCHANGED <<opened, currentPage, transactions, queue, mutex>>
    /\ UNCHANGED <<outputVars, filterVars, uploadVars>>

\* The UI event loop delivers the oldest posted event to its slot:
\*   status_changed     -> TransactionsPage.update_status          (line 159)
\*   progress           -> TransactionsPage.update_progress        (line 160)
\*   transactions_ready -> on_build_transactions_finished          (line 161)
\*   finished           -> quit() of the emitting worker's QThread (line 162)
\* update_progress only changes the display widget.
\* on_build_transactions_finished stores the list and calls
\* set_unsigned_transactions.
\* The QThread of an earlier run has ended and was dropped: its quit() has
\* nothing left to do.
Deliver ==
    /\ UiIdle /\ queue # <<>>
    /\ LET ev == Head(queue) IN
       /\ queue' = Tail(queue)
       /\ CASE ev.sig = "status_changed" ->
                 /\ status' = UpdateStatus(cursor, ev.st).status
                 /\ cursor' = UpdateStatus(cursor, ev.st).cursor
                 /\ UNCHANGED <<transactions, quitReq>>
            [] ev.sig = "progress" ->
                 UNCHANGED <<status, cursor, transactions, quitReq>>
            [] ev.sig = "transactions_ready" ->
                 /\ transactions' = ev.txs
                 /\ status' = SetUnsignedTransactions(status, ev.txs).status
                 /\ cursor' = SetUnsignedTransactions(status, ev.txs).cursor
                 /\ UNCHANGED quitReq
            [] ev.sig = "finished" ->
                 /\ quitReq' = IF ev.run = tx_thread THEN TRUE ELSE quitReq
                 /\ UNCHANGED <<status, cursor, transactions>>
    /\ UNCHANGED <<opened, currentPage, uiPc, tx_thread, aborted, running,
                   workerVars, histVars>>
    /\ UNCHANGED <<outputVars, filterVars, consolidatorVars, uploadVars>>

\* The pages of the wizard, and "no page".
PageIds == {NoPage, CoinsPageId, OutputPageId, TxPageId}

Next ==
    \/ Show
    \/ \E p \in PageIds : OnPageChanged(p)
    \/ RequestLockWrite
    \/ RequestUnlock
    \/ StopThreadQuit
    \/ PageChangedRest
    \/ Deliver
    \/ WStart
    \/ WNext
    \/ WLockRead
    \/ WUnlock
    \/ WCheck
    \/ WAfter
    \/ WReady
    \/ WFinished
    \/ ThreadExit

Spec == Init /\ [][Next]_vars

\* The wizard with a user who also edits the outputs page.
NextOutputs ==
    \/ Next
    \/ \E single \in BOOLEAN : ClickRadio(single)
    \/ \E text \in AddressTexts : EditAddress(text)

SpecOutputs == Init /\ [][NextOutputs]_vars

(***************************************************************************)
(* BitcoinFilesUploadDialog                                                *)
(***************************************************************************)

\* Bounds of the model: the chunks of the largest accepted file, the signing
\* requests outstanding at a time, and the funding transactions of a batch,
\* for the whole dialog (MaxFundings) and for the dialog without its upload
\* (MaxRefundings), and the upload() calls nested in one another.
MaxChunks == 2
MaxSigning == 2
MaxFundings == 1
MaxRefundings == 2
MaxNesting == 1

\* f.read(220), line 260; the size limit of line 228.
ChunkSize == 220
MaxFileSize == 5261

\* The files the user can pick in the file dialog, and their sizes in bytes:
\* an empty file, a file that ends one byte after a chunk boundary, and a
\* file one byte over the limit.
Files == {"empty", "doc", "big"}
FileSize(f) ==
    CASE f = "empty" -> 0
      [] f = "doc" -> (MaxChunks - 1) * ChunkSize + 1
      [] OTHER -> MaxFileSize + 1

\* The texts of prev_hash: empty, a text of fewer than 64 digits.
PrevHashTexts == {"", "abc"}

\* prev_hash.text() passes the checks of line 201-204.
PrevHashOk(text) == text = "" \/ Len(text) = 64

\* The texts of file_receiver_e: empty, a text for which Address.from_string
\* raises Base58Error.
ReceiverTexts == {"", "bad58"}

\* Line 206-211: the receiver text is empty or parses.
ReceiverOk(text) == text # "bad58"

\* Mutant of ReadChunks: the last, shorter chunk is dropped.
RECURSIVE ReadChunks_Floor(_)
ReadChunks_Floor(remaining) ==
    IF remaining < ChunkSize
    THEN 0
    ELSE 1 + ReadChunks_Floor(remaining - ChunkSize)

\* Line 258-266: the number of chunks the loop collects from a file of which
\* `remaining` bytes are unread; each f.read(220) returns up to 220 bytes, and
\* b'' at the end of the file.
RECURSIVE ReadChunks(_)
ReadChunks(remaining) ==
    IF remaining = 0
    THEN 0
    ELSE 1 + ReadChunks(IF remaining > ChunkSize THEN remaining - ChunkSize ELSE 0)

\* Mutant of TooLarge: no size limit.
TooLarge_NoLimit(size) == FALSE

\* Line 228: len(bytes) > 5261.
TooLarge(size) == size > MaxFileSize

\* The transaction getFundingTxn returns for file f.
FundingTxn(f) ==
    [kind |-> "funding", file |-> f, index |-> 0, data |-> FALSE,
     final |-> FALSE, prev |-> 0]

\* The transaction getUploadTxn returns: built from the transaction at
\* position prev of tx_batch (counted from 1), for chunk index i, with the
\* data of chunk i of file f (hasData) or with None, and flagged final or not.
UploadTxn(prev, f, i, hasData, fin) ==
    [kind |-> "upload", file |-> f, index |-> i, data |-> hasData,
     final |-> fin, prev |-> prev]

\* main_window.sign_tx(tx, sign_done): a signing request, as the callback it
\* holds; f is the file whose chunks the closure sign_done holds.
SignRequest(f) == [chunks |-> f]

\* The number of funding transactions in a batch.
RECURSIVE Fundings(_)
Fundings(batch) ==
    IF batch = <<>>
    THEN 0
    ELSE (IF Head(batch).kind = "funding" THEN 1 ELSE 0) + Fundings(Tail(batch))

\* A handler of the dialog that is suspended in a nested event loop, as an
\* entry of `stack`:
\*   "upload"   upload() inside QApplication.processEvents() (line 349); list
\*              is the list object its for statement iterates, kept as its
\*              content once self.tx_batch is another object (shared FALSE),
\*              count the local broadcast_count, which is also the position
\*              of the iteration, and log the statuses of its broadcasts
\*   "message"  upload() inside show_message("File upload complete.")
\*              (line 357), a modal message box
\*   "select"   select_file inside QFileDialog.getOpenFileName (line 325), a
\*              modal file chooser
UploadFrame(list, shared, count, log) ==
    [kind |-> "upload", list |-> list, shared |-> shared, count |-> count,
     log |-> log]
MessageFrame ==
    [kind |-> "message", list |-> <<>>, shared |-> FALSE, count |-> 0,
     log |-> <<>>]
SelectFrame ==
    [kind |-> "select", list |-> <<>>, shared |-> FALSE, count |-> 0,
     log |-> <<>>]

\* The handler suspended last, whose event loop is the one running; and the
\* handlers below it.
Top(s) == s[Len(s)]
Below(s) == SubSeq(s, 1, Len(s) - 1)

\* The number of upload() calls that have not returned.
RECURSIVE UploadDepth(_)
UploadDepth(s) ==
    IF s = <<>>
    THEN 0
    ELSE (IF Top(s).kind = "select" THEN 0 ELSE 1) + UploadDepth(Below(s))

\* The user can act on the dialog: it is open, and the event loop that runs
\* is the application's or the processEvents() of upload(); the file chooser
\* and the message box are modal.
DialogIdle ==
    /\ dialogOpen
    /\ IF stack = <<>> THEN TRUE ELSE Top(stack).kind = "upload"

\* self.tx_batch = [] (line 184 and 318) binds the attribute to a new list:
\* an upload() that iterates the previous list object keeps it.
Detach(s) ==
    [i \in DOMAIN s |->
        IF s[i].shared
        THEN UploadFrame(tx_batch, FALSE, s[i].count, s[i].log)
        ELSE s[i]]

\* make_dirty, line 180-193, as the values it assigns.
MakeDirty ==
    /\ is_dirty' = TRUE
    /\ upload_button' = FALSE
    /\ tx_batch' = <<>>
    /\ tx_batch_signed_count' = 0
    /\ chunks_processed' = 0
    /\ chunks_total' = 0
    /\ final_metadata_txn_created' = FALSE
    /\ sign_button' = IF filename # "" THEN TRUE ELSE sign_button
    /\ overlapped' = (signing # EmptyBag)
    /\ stack' = Detach(stack)

\* sign_txns, line 195-314, run on the batch `batch` with chunks_total
\* `total` and self.filename `fname`; fund tells whether getFundingTxn
\* returns (TRUE) or raises NotEnoughFunds.  The result: the new tx_batch and
\* chunks_total, the signing requests issued, the message box shown, and
\* whether the funding transaction was appended.
\* With filename None, open() raises and the handler ends there.
SignTxns(batch, total, fname, fund) ==
    LET stay(msg) == [tx_batch |-> batch, chunks_total |-> total,
                      requests |-> EmptyBag, message |-> msg,
                      funded |-> FALSE]
    IN
    IF ~PrevHashOk(prev_hash) THEN stay("prev_hash")
    ELSE IF ~ReceiverOk(file_receiver_e) THEN stay("checksum")
    ELSE IF fname = "" THEN stay("")
    ELSE IF fname = None THEN stay("")
    ELSE IF TooLarge(FileSize(fname)) THEN stay("too_large")
    ELSE IF ~fund THEN stay("insufficient_funds")
    ELSE LET batch1 == Append(batch, FundingTxn(fname)) IN
         [tx_batch |-> batch1,
          chunks_total |-> total + ReadChunks(FileSize(fname)),
          requests |-> SetToBag({SignRequest(fname)}),
          message |-> "",
          funded |-> TRUE]

\* The user clicks "Select File...": select_file, line 316-325, up to the
\* file chooser, which runs its own event loop.
SelectFile ==
    /\ DialogIdle
    /\ BagCardinality(signing) < MaxSigning
    /\ tx_batch' = <<>>
    /\ tx_batch_signed_count' = 0
    /\ chunks_processed' = 0
    /\ chunks_total' = 0
    /\ final_metadata_txn_created' = FALSE
    /\ stack' = Append(Detach(stack), SelectFrame)
    /\ overlapped' = (signing # EmptyBag)
    /\ message' = ""
    /\ sign_result' = ""
    /\ UNCHANGED <<dialogOpen, filename, is_dirty, sign_button, upload_button,
                   fieldVars, signing>>
    /\ UNCHANGED wizardVars

\* The user picks the file f in the file chooser, or cancels it (f = ""):
\* select_file, line 325-326, assigns self.filename and runs sign_txns.
FileChosen(f, fund) ==
    /\ stack # <<>> /\ Top(stack).kind = "select"
    /\ LET r == SignTxns(tx_batch, chunks_total, f, fund) IN
       /\ filename' = f
       /\ tx_batch' = r.tx_batch
       /\ chunks_total' = r.chunks_total
       /\ signing' = signing (+) r.requests
       /\ message' = r.message
       /\ overlapped' =
            (overlapped \/ (r.funded /\ (tx_batch # <<>> \/ signing # EmptyBag)))
    /\ stack' = Below(stack)
    /\ sign_result' = ""
    /\ UNCHANGED <<dialogOpen, is_dirty, tx_batch_signed_count,
                   chunks_processed, final_metadata_txn_created, sign_button,
                   upload_button, fieldVars>>
    /\ UNCHANGED wizardVars

\* The user clicks "Sign": sign_txns.
ClickSign(fund) ==
    /\ DialogIdle /\ sign_button
    /\ BagCardinality(signing) < MaxSigning
    /\ LET r == SignTxns(tx_batch, chunks_total, filename, fund) IN
       /\ tx_batch' = r.tx_batch
       /\ chunks_total' = r.chunks_total
       /\ signing' = signing (+) r.requests
       /\ message' = r.message
       /\ overlapped' =
            (overlapped \/ (r.funded /\ (tx_batch # <<>> \/ signing # EmptyBag)))
    /\ sign_result' = ""
    /\ UNCHANGED <<dialogOpen, filename, is_dirty, tx_batch_signed_count,
                   chunks_processed, final_metadata_txn_created, sign_button,
                   upload_button, fieldVars, stack>>
    /\ UNCHANGED wizardVars

\* The user changes the text of prev_hash: textChanged runs make_dirty.
EditPrevHash(text) ==
    /\ DialogIdle
    /\ text # prev_hash
    /\ prev_hash' = text
    /\ MakeDirty
    /\ message' = ""
    /\ sign_result' = ""
    /\ UNCHANGED <<dialogOpen, filename, file_receiver_visible, file_receiver_e,
                   signing>>
    /\ UNCHANGED wizardVars

\* The user changes the text of file_receiver_e, which is visible:
\* textChanged runs make_dirty.
EditReceiver(text) ==
    /\ DialogIdle /\ file_receiver_visible
    /\ text # file_receiver_e
    /\ file_receiver_e' = text
    /\ MakeDirty
    /\ message' = ""
    /\ sign_result' = ""
    /\ UNCHANGED <<dialogOpen, filename, prev_hash, file_receiver_visible,
                   signing>>
    /\ UNCHANGED wizardVars

\* The user clicks the receiver check box: toggle_receiver_addr, line
\* 174-178; hiding the line edit clears its text, and a text that changes
\* runs make_dirty.
ToggleReceiverAddr ==
    /\ DialogIdle
    /\ file_receiver_visible' = ~file_receiver_visible
    /\ IF file_receiver_visible /\ file_receiver_e # ""
       THEN /\ file_receiver_e' = ""
            /\ MakeDirty
       ELSE UNCHANGED <<file_receiver_e, is_dirty, upload_button, batchVars,
                        sign_button, overlapped, stack>>
    /\ message' = ""
    /\ sign_result' = ""
    /\ UNCHANGED <<dialogOpen, filename, prev_hash, signing>>
    /\ UNCHANGED wizardVars

\* The user clicks "Cancel" (line 148) or closes the window: close().
Cancel ==
    /\ DialogIdle
    /\ dialogOpen' = FALSE
    /\ message' = ""
    /\ sign_result' = ""
    /\ UNCHANGED <<filename, is_dirty, batchVars, sign_button, upload_button,
                   fieldVars, signing, overlapped, stack>>
    /\ UNCHANGED wizardVars

\* Mutant of SignDoneStops: a failed signing is treated as a success.
SignDoneStops_Never(success) == FALSE

\* sign_done, line 282: the callback does nothing when signing failed.
SignDoneStops(success) == ~success

\* Mutant of Building: the transaction after the last chunk is not built.
Building_NoMetadataTxn ==
    chunks_processed < chunks_total /\ ~final_metadata_txn_created

\* sign_done, line 288: another upload transaction is to be built.
Building ==
    chunks_processed <= chunks_total /\ ~final_metadata_txn_created

\* A signing request ends and main_window.sign_tx calls its callback, in
\* whatever event loop is running: sign_done(success), line 281-313; a
\* request that is never answered stays in `signing`.  built is what
\* getUploadTxn does when it is called: it returns a transaction flagged
\* final ("final") or not ("more"), or raises NotEnoughFunds.
\* tx_batch[chunks_processed] raises IndexError when the batch is that
\* short, as does tx_batch[len - 1] on an empty batch, and the handler ends
\* there.  tx_batch.append changes the list object in place, so an upload()
\* that iterates it finds the new transaction.
SignDone(req, success, built) ==
    /\ BagIn(req, signing)
    /\ LET rest == signing (-) SetToBag({req})
           hasData == chunks_processed < ReadChunks(FileSize(req.chunks))
           txn == UploadTxn(chunks_processed + 1, req.chunks,
                            chunks_processed, hasData, built = "final")
       IN
       IF SignDoneStops(success)
       THEN /\ signing' = rest
            /\ message' = ""
            /\ UNCHANGED <<is_dirty, batchVars, sign_button, upload_button>>
       ELSE /\ tx_batch_signed_count' = tx_batch_signed_count + 1
            /\ IF Building /\ chunks_processed >= Len(tx_batch)
               THEN /\ signing' = rest
                    /\ message' = ""
                    /\ UNCHANGED <<is_dirty, tx_batch, chunks_processed,
                                   chunks_total, final_metadata_txn_created,
                                   sign_button, upload_button>>
               ELSE IF Building /\ built = "NotEnoughFunds"
               THEN /\ signing' = rest
                    /\ message' = "insufficient_funds_chunk"
                    /\ UNCHANGED <<is_dirty, tx_batch, chunks_processed,
                                   chunks_total, final_metadata_txn_created,
                                   sign_button, upload_button>>
               ELSE /\ tx_batch' = IF Building THEN Append(tx_batch, txn) ELSE tx_batch
                    /\ chunks_processed' =
                         IF Building THEN chunks_processed + 1 ELSE chunks_processed
                    /\ final_metadata_txn_created' =
                         IF Building THEN built = "final" ELSE final_metadata_txn_created
                    /\ message' = ""
                    /\ UNCHANGED chunks_total
                    /\ IF tx_batch_signed_count' < Len(tx_batch')
                       THEN /\ signing' = rest (+) SetToBag({SignRequest(req.chunks)})
                            /\ UNCHANGED <<is_dirty, sign_button, upload_button>>
                       ELSE IF tx_batch' = <<>>
                       THEN /\ signing' = rest
                            /\ UNCHANGED <<is_dirty, sign_button, upload_button>>
                       ELSE /\ signing' = rest
                            /\ is_dirty' = FALSE
                            /\ sign_button' = FALSE
                            /\ upload_button' = TRUE
    /\ sign_result' = IF success THEN "success" ELSE "failure"
    /\ UNCHANGED <<dialogOpen, filename, fieldVars, overlapped, stack>>
    /\ UNCHANGED wizardVars

\* upload, line 340-343: a broadcast that reports failure ends upload().
BroadcastStops(ok) == ~ok

\* The content of the list object the upload() of frame fr iterates.
Iterated(fr) == IF fr.shared THEN tx_batch ELSE fr.list

\* upload, line 335-357, from the top of the for statement, for the upload()
\* of frame fr above the suspended handlers below_: the next transaction of
\* the list is broadcast and network.broadcast reports its status; a failure
\* is shown and upload() returns; after a success the loop runs
\* processEvents(); when the list has no further transaction, "File upload
\* complete." is shown.
UploadLoop(fr, below_) ==
    IF fr.count >= Len(Iterated(fr))
    THEN /\ message' = "upload_complete"
         /\ stack' = Append(below_, MessageFrame)
    ELSE \E ok \in BOOLEAN :
         IF BroadcastStops(ok)
         THEN /\ message' = "upload_failed"
              /\ stack' = below_
         ELSE /\ message' = ""
              /\ stack' = Append(below_,
                                 UploadFrame(fr.list, fr.shared, fr.count + 1,
                                             Append(fr.log, ok)))

\* The user clicks "Upload": upload, line 328-349, up to the first
\* processEvents().
ClickUpload ==
    /\ DialogIdle /\ upload_button
    /\ UploadDepth(stack) < MaxNesting
    /\ IF is_dirty
       THEN /\ message' = ""
            /\ UNCHANGED stack
       ELSE UploadLoop(UploadFrame(<<>>, TRUE, 0, <<>>), stack)
    /\ sign_result' = ""
    /\ UNCHANGED <<dialogOpen, filename, is_dirty, batchVars, sign_button,
                   upload_button, fieldVars, signing, overlapped>>
    /\ UNCHANGED wizardVars

\* processEvents() returns and upload() goes on with its loop.
UploadResume ==
    /\ stack # <<>> /\ Top(stack).kind = "upload"
    /\ UploadLoop(Top(stack), Below(stack))
    /\ sign_result' = ""
    /\ UNCHANGED <<dialogOpen, filename, is_dirty, batchVars, sign_button,
                   upload_button, fieldVars, signing, overlapped>>
    /\ UNCHANGED wizardVars

\* The user closes the message box "File upload complete.": upload, line
\* 358, self.close(), and upload() returns.
UploadClose ==
    /\ stack # <<>> /\ Top(stack).kind = "message"
    /\ dialogOpen' = FALSE
    /\ stack' = Below(stack)
    /\ sign_result' = ""
    /\ UNCHANGED <<filename, is_dirty, batchVars, sign_button, upload_button,
                   fieldVars, message, signing, overlapped>>
    /\ UNCHANGED wizardVars

\* What getUploadTxn does when called.
BuildOutcomes == {"final", "more", "NotEnoughFunds"}

\* The upload dialog, its user, the signing and the network.
NextUpload ==
    \/ SelectFile
    \/ \E f \in Files \cup {""}, fund \in BOOLEAN : FileChosen(f, fund)
    \/ \E fund \in BOOLEAN : Fundings(tx_batch) < MaxFundings /\ ClickSign(fund)
    \/ \E text \in PrevHashTexts : EditPrevHash(text)
    \/ \E text \in ReceiverTexts : EditReceiver(text)
    \/ ToggleReceiverAddr
    \/ Cancel
    \/ \E req \in BagToSet(signing), success \in BOOLEAN, built \in BuildOutcomes :
          SignDone(req, success, built)
    \/ ClickUpload
    \/ UploadResume
    \/ UploadClose

SpecUpload == Init /\ [][NextUpload]_vars

\* The dialog while nothing is uploaded, with a user who does not wait for
\* the signing: upload() and close() assign none of the variables that
\* sign_txns and sign_done read, so the batches built here are the ones
\* built with them.
NextChain ==
    \/ SelectFile
    \/ \E f \in Files \cup {""}, fund \in BOOLEAN : FileChosen(f, fund)
    \/ \E fund \in BOOLEAN : Fundings(tx_batch) < MaxFundings /\ ClickSign(fund)
    \/ \E text \in PrevHashTexts : EditPrevHash(text)
    \/ \E text \in ReceiverTexts : EditReceiver(text)
    \/ ToggleReceiverAddr
    \/ \E req \in BagToSet(signing), success \in BOOLEAN, built \in BuildOutcomes :
          SignDone(req, success, built)

SpecChain == Init /\ [][NextChain]_vars

\* The dialog while nothing is uploaded, with a user who waits for the answer
\* to a signing request before acting again: the user selects files, edits
\* the previous hash and clicks Sign, also on a batch that has its funding
\* transaction.
NextSigning ==
    \/ signing = EmptyBag /\ SelectFile
    \/ \E f \in Files \cup {""}, fund \in BOOLEAN : FileChosen(f, fund)
    \/ \E fund \in BOOLEAN :
          /\ signing = EmptyBag
          /\ Fundings(tx_batch) < MaxRefundings
          /\ ClickSign(fund)
    \/ \E text \in PrevHashTexts : signing = EmptyBag /\ EditPrevHash(text)
    \/ \E req \in BagToSet(signing), success \in BOOLEAN, built \in BuildOutcomes :
          SignDone(req, success, built)

SpecSigning == Init /\ [][NextSigning]_vars

\* The dialog while nothing is uploaded, when funds suffice and every signing
\* succeeds: getFundingTxn and getUploadTxn return, every request is
\* answered with success; sign_txns is run by select_file only, which resets
\* the batch first.
NextFunded ==
    \/ SelectFile
    \/ \E f \in Files \cup {""} : FileChosen(f, TRUE)
    \/ \E text \in PrevHashTexts : EditPrevHash(text)
    \/ \E req \in BagToSet(signing), built \in BuildOutcomes \ {"NotEnoughFunds"} :
          SignDone(req, TRUE, built)

SpecFunded == Init /\ [][NextFunded]_vars

(***************************************************************************)
(* Properties                                                              *)
(***************************************************************************)

\* The elements of a sequence.
Range(f) == {f[i] : i \in DOMAIN f}

IsPrefix(a, b) == Len(a) <= Len(b) /\ SubSeq(b, 1, Len(a)) = a

\* progress(1), ..., progress(n) of run w; the first n transactions of run w.
ProgressLog(w, n) == [k \in 1..n |-> ProgressEv(w, k)]
TxList(w, n) == [k \in 1..n |-> Tx(w, k)]

\* The signals of a run that completes after n transactions.
NaturalLog(w, n) ==
    <<StatusEv(w, "BUILDING")>> \o ProgressLog(w, n)
        \o (IF n >= 1 THEN <<StatusEv(w, "FINISHED")>> ELSE <<>>)
        \o <<ReadyEv(w, TxList(w, n)), FinishedEv(w)>>

\* The signals of a run that detects the interruption after m transactions.
InterruptedLog(w, m) ==
    <<StatusEv(w, "BUILDING")>> \o ProgressLog(w, m)
        \o <<StatusEv(w, "INTERRUPTED"), FinishedEv(w)>>

\* The current run emitted transactions_ready / INTERRUPTED.
EmittedReady == \E i \in DOMAIN emitted : emitted[i].sig = "transactions_ready"
EmittedInterrupted == StatusEv(tx_thread, "INTERRUPTED") \in Range(emitted)

\* No event of the current run is waiting in the UI thread's queue.
NoPending == \A i \in DOMAIN queue : queue[i].run # tx_thread

\* C1: a run whose producer yields N >= 1 transactions and whose interrupt
\* flag is never set emits BUILDING, then progress 1, 2, ..., N, then
\* FINISHED, then transactions_ready with the N produced transactions in
\* production order, then finished, and nothing else.
C1_NaturalCompletion ==
    (pc = "done" /\ reqAt.at = "none" /\ drawn >= 1)
        => emitted = NaturalLog(tx_thread, drawn)

\* C1: a run of two or more transactions has returned, never interrupted.
C1_Witness ==
    /\ pc = "done" /\ reqAt.at = "none" /\ drawn = MaxTx
    /\ Len(acc) >= 2
    /\ Len(emitted) = MaxTx + 4

\* C2: when the interrupt flag is set between two items, k transactions
\* being accumulated and the next one not yet drawn, the worker draws at most
\* one further item; if it draws one (k < N), that item is not accumulated,
\* the worker goes on to emit INTERRUPTED and never emits
\* transactions_ready.
C2_InterruptBetweenItems ==
    reqAt.at = "between" =>
        /\ drawn <= reqAt.k + 1
        /\ drawn = reqAt.k + 1 =>
             /\ Len(acc) = reqAt.k
             /\ ~EmittedReady
             /\ pc \in {"lock", "unlock", "check", "fin", "done"}
             /\ pc \in {"fin", "done"} => EmittedInterrupted

\* C2: the flag was set after the first transaction, the second item was
\* drawn, and the run has ended with INTERRUPTED.
C2_Witness ==
    /\ reqAt = [at |-> "between", k |-> 1]
    /\ drawn = 2
    /\ pc = "done"
    /\ EmittedInterrupted

\* C3 as stated: a run whose interrupt flag was set before the worker drew
\* its first item ends with INTERRUPTED emitted and without
\* transactions_ready, whatever the number of items of the producer.
C3_InterruptBeforeStart ==
    (reqAt = [at |-> "between", k |-> 0] /\ pc = "done")
        => (EmittedInterrupted /\ ~EmittedReady)

\* C4 as stated: once a run has stopped on an error of the producer and
\* every posted event has been delivered, the transactions page shows a
\* failure state, which is none of the existing statuses (in particular not
\* BUILDING).
C4_FailureObservable ==
    (pc = "raised" /\ queue = <<>> /\ uiPc = "idle" /\ ~aborted)
        => status \notin TransactionsStatus

\* C5 as stated: on_page_changed goes on to replace the wizard's thread and
\* worker by new ones only when the previous worker is no longer inside
\* build_transactions.
C5_StartsAfterStop ==
    [][(tx_thread # 0 /\ (tx_thread' # tx_thread \/ aborted' # aborted))
           => pc \notin InsideBuild]_vars

\* The signal sequences of a run of w that has returned.
CompleteLogs(w) ==
    {NaturalLog(w, n) : n \in 0..MaxTx} \cup {InterruptedLog(w, m) : m \in 0..MaxTx}

\* C6: the signals of a run without producer error are, at every moment, the
\* beginning of one of two sequences:
\*   BUILDING, progress 1..m, INTERRUPTED, finished
\*   BUILDING, progress 1..n, FINISHED (only if n >= 1), transactions_ready,
\*   finished
\* and are one of them in full once build_transactions has returned;
\* finished is emitted by the last step only.
C6_EventOrder ==
    /\ \E l \in CompleteLogs(tx_thread) : IsPrefix(emitted, l)
    /\ pc = "done" <=> FinishedEv(tx_thread) \in Range(emitted)
    /\ pc = "done" => emitted \in CompleteLogs(tx_thread)

\* C6: a run has returned after one transaction and the interruption.
C6_Witness ==
    pc = "done" /\ emitted = InterruptedLog(tx_thread, 1)

\* The producer of the current run was exhausted without yielding any item.
ZeroRun == drawn = 0 /\ pc \in {"after", "ready", "fin", "done"}

\* C7: a run whose producer yields no transaction never emits FINISHED, emits
\* transactions_ready with the empty list, and once that event is delivered
\* the transactions page has status NO_RESULT and is not complete; whether or
\* not the interrupt flag was set.
C7_EmptyResult ==
    ZeroRun =>
        /\ StatusEv(tx_thread, "FINISHED") \notin Range(emitted)
        /\ pc \in {"fin", "done"} => ReadyEv(tx_thread, <<>>) \in Range(emitted)
        /\ (ReadyEv(tx_thread, <<>>) \in Range(emitted) /\ NoPending /\ ~aborted)
             => (status = "NO_RESULT" /\ ~IsComplete)

\* C7: a run of no transaction, its interrupt flag set, has returned and its
\* events are delivered.
C7_Witness ==
    /\ ZeroRun /\ pc = "done" /\ interrupt
    /\ NoPending /\ status = "NO_RESULT"

\* The statuses that end a run.
Terminal == {"INTERRUPTED", "FINISHED", "NO_RESULT"}

\* C8 as stated: the status of the transactions page only moves from
\* NOT_STARTED to BUILDING and from BUILDING to a terminal status, it is reset
\* to NOT_STARTED only when the wizard starts a run, and a status_changed
\* event that is delivered belongs to the wizard's latest run.
C8_StatusMonotonic ==
    [][/\ status' # status =>
            \/ status' = "NOT_STARTED" /\ (tx_thread' # tx_thread \/ aborted')
            \/ status = "NOT_STARTED" /\ status' = "BUILDING"
            \/ status = "BUILDING" /\ status' \in Terminal
       /\ (queue # <<>> /\ queue' = Tail(queue) /\ Head(queue).sig = "status_changed")
            => Head(queue).run = tx_thread]_vars

\* The values of the progress signals in a sequence of events, in order.
ProgressValues(l) ==
    LET idx == {i \in DOMAIN l : l[i].sig = "progress"}
        F[i \in 0..Len(l)] ==
            IF i = 0 THEN <<>>
            ELSE IF i \in idx THEN Append(F[i - 1], l[i].n) ELSE F[i - 1]
    IN F[Len(l)]

\* C9: at every moment of a run the progress values emitted so far are
\* 1, 2, ..., m, m being the number of transactions accumulated; the item
\* drawn at the check that detects the interruption is not accumulated and
\* has no progress event.
C9_ProgressCounts ==
    /\ ProgressValues(emitted) = [k \in 1..Len(acc) |-> k]
    /\ EmittedInterrupted => drawn = Len(acc) + 1

\* C9: a run was interrupted after it accumulated a transaction.
C9_Witness ==
    /\ EmittedInterrupted
    /\ Len(acc) >= 1
    /\ drawn = Len(acc) + 1

\* The mutex is held by exactly the thread that is inside its critical
\* section: the worker between lock() and unlock() of
\* was_interruption_requested, the UI thread between lock() and unlock() of
\* request_interruption.
MutexDiscipline ==
    /\ mutex = "worker" <=> pc = "unlock"
    /\ mutex = "ui" <=> uiPc = "unlock"

\* C10: the mutex is held exactly inside the two critical sections, so they
\* never overlap and the mutex is free outside them; within a run the
\* interrupt flag only changes from False to True, in a step of the UI thread
\* that takes the free mutex; the worker reads it in a step that takes the
\* free mutex.
C10_FlagUnderMutex ==
    [][/\ MutexDiscipline /\ MutexDiscipline'
       /\ (interrupt' # interrupt /\ tx_thread' = tx_thread) =>
            (interrupt' = TRUE /\ mutex = "free" /\ mutex' = "ui")
       /\ (pc = "lock" /\ pc' = "unlock") =>
            (mutex = "free" /\ mutex' = "worker" /\ do_interrupt' = interrupt)]_vars

\* C10: the UI thread waits in request_interruption for the mutex the worker
\* holds.
C10_Witness ==
    /\ uiPc = "request"
    /\ mutex = "worker"
    /\ pc = "unlock"

\* C11 as stated: whenever INTERRUPTED was emitted, the producer yielded an
\* item after the interrupt flag was set.
C11_YieldAfterRequest ==
    EmittedInterrupted => drawn > reqAt.k

\* C11, amended: INTERRUPTED is emitted only by the check that directly
\* follows the yield of an item (the item is drawn and not accumulated),
\* never before the first item and never while the worker waits for the
\* producer; and when the flag was set while the worker was before the loop
\* or waiting for the producer, an item was yielded after that.
C11_CheckPointOnly ==
    [][(EmittedInterrupted' /\ ~EmittedInterrupted /\ tx_thread' = tx_thread)
          => /\ pc = "check" /\ do_interrupt
             /\ drawn >= 1 /\ Len(acc) = drawn - 1
             /\ drawn' = drawn /\ acc' = acc
             /\ reqAt.at # "none"
             /\ reqAt.at = "between" => drawn > reqAt.k]_vars

\* C11: the flag was set before the first item was drawn, and INTERRUPTED
\* was emitted at the check of the first item.
C11_Witness ==
    /\ reqAt = [at |-> "between", k |-> 0]
    /\ EmittedInterrupted
    /\ drawn = 1 /\ acc = <<>>

\* C12 as stated: once the current run has ended with INTERRUPTED and the
\* page shows that status, every posted event being delivered, the wizard's
\* transactions list is empty.
C12_EmptyAfterInterrupted ==
    (pc = "done" /\ EmittedInterrupted /\ queue = <<>> /\ status = "INTERRUPTED")
        => transactions = <<>>

\* C21 (as stated): every status_changed and transactions_ready event that
\* is delivered to the transactions page or to on_build_transactions_finished
\* was emitted by the worker of the wizard's latest run, and the list stored
\* in ConsolidateCoinsWizard.transactions by a delivery is a list of that run.
C21_LatestRunOnly ==
    [][(queue # <<>> /\ queue' = Tail(queue)) =>
          /\ Head(queue).sig \in {"status_changed", "transactions_ready"} =>
                Head(queue).run = tx_thread
          /\ transactions' # transactions =>
                \A i \in DOMAIN transactions' : transactions'[i][1] = tx_thread]_vars

\* C13: at every moment the Next button of the outputs page is enabled
\* exactly when the page is complete, which it is only if "same address" is
\* selected or the text entered last is a valid address (output_address is
\* the address of that text, None for any other text); and whenever the
\* wizard constructs a worker, the output address it passes is not None.
C13_ValidAddressToStart ==
    [][/\ nextEnabled' = OutputsIsComplete(single_address_rb', output_address')
       /\ nextEnabled' => (same_address_rb' \/ address_text' \in ValidAddressTexts)
       /\ output_address' =
            (IF address_text' \in ValidAddressTexts THEN address_text' ELSE None)
       /\ same_address_rb' = ~single_address_rb'
       /\ tx_thread' # tx_thread => GetOutputAddress # None]_vars

\* C13: after a run with a valid single address the user went back and
\* replaced the text by a malformed one: the page is not complete.
C13_Witness ==
    /\ currentPage = OutputPageId
    /\ tx_thread >= 1
    /\ single_address_rb /\ address_text = "" /\ output_address = None
    /\ ~nextEnabled

\* C18: a run is started only by a step that makes, or leaves, the
\* transactions page current; a page change made while the thread is running
\* starts nothing before request_interruption has set the flag and quit()
\* was called, and no run is started while the thread is running; and a run
\* whose flag was set when k items were drawn and that drew a further item
\* never reaches the code after its loop: it emits neither FINISHED nor
\* transactions_ready.
C18_StopOnLeave ==
    [][/\ tx_thread' # tx_thread => currentPage' = TxPageId
       /\ (currentPage' # currentPage /\ running = "running") =>
            /\ uiPc' = "request"
            /\ tx_thread' = tx_thread
       /\ (uiPc = "request" /\ uiPc' # "request") => interrupt'
       /\ tx_thread' # tx_thread =>
            /\ running # "running"
            /\ uiPc # "idle" => (interrupt /\ quitReq /\ uiPc = "rest")
       /\ (reqAt'.at # "none" /\ drawn' > reqAt'.k) =>
            /\ pc' \notin {"after", "ready"}
            /\ \A i \in DOMAIN emitted' :
                 /\ emitted'[i].sig # "transactions_ready"
                 /\ emitted'[i] # StatusEv(tx_thread', "FINISHED")]_vars

\* C18 witness: the user went back from the transactions page while the
\* worker was handling its first item of several; the worker drew the second
\* item, found the flag and ended with INTERRUPTED.
C18_Witness ==
    /\ currentPage = OutputPageId
    /\ reqAt = [at |-> "within", k |-> 1]
    /\ drawn = 2
    /\ pc = "done"
    /\ emitted = InterruptedLog(tx_thread, 1)

(***************************************************************************)
(* Properties of the upload dialog                                         *)
(***************************************************************************)

\* ceil(size / 220) for the file f.
ChunksOf(f) == (FileSize(f) + ChunkSize - 1) \div ChunkSize

\* This step is a sign_done that finds every transaction of a non-empty
\* batch signed and reports "Signing complete".
SigningCompletes ==
    /\ tx_batch_signed_count' = tx_batch_signed_count + 1
    /\ tx_batch_signed_count' >= Len(tx_batch')
    /\ tx_batch' # <<>>
    /\ message' # "insufficient_funds_chunk"

\* The upload transactions of a batch, in batch order.
Uploads(batch) == SelectSeq(batch, LAMBDA tx : tx.kind = "upload")

\* The batch is one funding transaction followed by m upload transactions
\* of the file f, the i-th (from 0) with chunk index i, built from the
\* transaction before it, with the data of chunk i when the file has one.
OneFundingThenUploads(batch, f, m) ==
    /\ Len(batch) = m + 1
    /\ batch[1] = FundingTxn(f)
    /\ \A i \in 0 .. m - 1 :
         /\ batch[i + 2].kind = "upload"
         /\ batch[i + 2].file = f
         /\ batch[i + 2].index = i
         /\ batch[i + 2].prev = i + 1
         /\ batch[i + 2].data = (i < ChunksOf(f))

\* C14 (as stated): when signing completes, the batch is one funding
\* transaction followed by exactly one upload transaction per chunk of the
\* file, each built from the batch transaction before it.
C14_OnePerChunk ==
    [][SigningCompletes =>
         OneFundingThenUploads(tx_batch', filename, ChunksOf(filename))]_vars

\* C14 (amended): when signing completes, the batch starts with a funding
\* transaction, its upload transactions carry the chunk indices 0, 1, ... in
\* batch order, each built from tx_batch[index], and there are
\* chunks_processed of them, at most chunks_total + 1; when the batch was
\* built by one chain of signing requests for the selected file of n
\* chunks, it is one funding transaction followed by m upload transactions,
\* 1 <= m <= n + 1, upload i carrying chunk i for i < n and no chunk for
\* i = n; none but the last is flagged final by getUploadTxn, and the last
\* is flagged final when m <= n.
C14_CompletedBatch ==
    [][SigningCompletes =>
         LET ups == Uploads(tx_batch')
             m == Len(ups)
             n == ChunksOf(filename)
         IN
         /\ tx_batch'[1].kind = "funding"
         /\ m = chunks_processed'
         /\ m <= chunks_total' + 1
         /\ \A i \in 1 .. m : ups[i].index = i - 1 /\ ups[i].prev = i
         /\ ~overlapped' =>
              /\ OneFundingThenUploads(tx_batch', filename, m)
              /\ chunks_total' = n
              /\ m >= 1 /\ m <= n + 1
              /\ \A i \in 1 .. m - 1 : ~ups[i].final
              /\ (m <= n => ups[m].final)]_vars

\* C14 witness: signing of the batch of the file "doc" completed by
\* one chain, with a funding transaction, one upload transaction per chunk
\* and one more without chunk data.
C14_Witness ==
    /\ ~overlapped /\ upload_button /\ ~is_dirty
    /\ filename = "doc"
    /\ tx_batch_signed_count = Len(tx_batch)
    /\ Len(tx_batch) = ChunksOf("doc") + 2
    /\ ~tx_batch[Len(tx_batch)].data

\* C15 (as stated): at most one signing request is outstanding at a time,
\* and tx_batch_signed_count never exceeds len(tx_batch).
C15_OneRequestAtATime ==
    /\ BagCardinality(signing) <= 1
    /\ tx_batch_signed_count <= Len(tx_batch)

\* Every status in the log is a success.
AllBroadcastOk(log) == \A i \in 1 .. Len(log) : log[i]

\* A step in which upload() broadcast a transaction with success: a new
\* upload() is suspended after its first broadcast, or the one suspended
\* last has advanced by one transaction.
BroadcastStep ==
    /\ stack' # <<>> /\ Top(stack').kind = "upload"
    /\ \/ Len(stack') = Len(stack) + 1
       \/ /\ Len(stack') = Len(stack)
          /\ Top(stack').count = Top(stack).count + 1

\* C16 (as stated): upload() broadcasts tx_batch in batch order and stops at
\* the first failure: a broadcast is made only of a transaction of tx_batch,
\* at the position after the transactions broadcast successfully in this
\* attempt; a reported failure ends the attempt; and "File upload complete."
\* is shown only after every transaction of tx_batch was broadcast
\* successfully in this attempt.
C16_SequentialUpload ==
    [][/\ BroadcastStep =>
            /\ Top(stack').shared
            /\ Top(stack').count <= Len(tx_batch)
            /\ Len(Top(stack').log) = Top(stack').count
            /\ AllBroadcastOk(Top(stack').log)
       /\ message' = "upload_failed" =>
            /\ stack' = stack \/ stack' = Below(stack)
            /\ dialogOpen' = dialogOpen
       /\ message' = "upload_complete" =>
            \/ /\ Len(stack') = Len(stack) + 1
               /\ tx_batch = <<>>
            \/ /\ Len(stack') = Len(stack)
               /\ Top(stack).shared
               /\ Top(stack).count = Len(tx_batch)
               /\ AllBroadcastOk(Top(stack).log)]_vars

\* The file f is one the user picked and is larger than the limit.
Oversized(f) == f \in Files /\ FileSize(f) > MaxFileSize

\* C19: sign_txns on a file larger than 5261 bytes reports the error and
\* builds nothing: selecting such a file (the fields being valid) shows the
\* error; the call that shows it leaves tx_batch without a funding
\* transaction more, issues no signing request and does not change the
\* upload button; and no transaction or signing request for such a file
\* ever exists.
C19_TooLargeBuildsNothing ==
    [][/\ (/\ filename' # filename /\ Oversized(filename')
           /\ PrevHashOk(prev_hash) /\ ReceiverOk(file_receiver_e)) =>
            message' = "too_large"
       /\ message' = "too_large" =>
            /\ Oversized(filename')
            /\ tx_batch' \in {tx_batch, <<>>}
            /\ signing' = signing
            /\ upload_button' = upload_button
            /\ tx_batch_signed_count' \in {tx_batch_signed_count, 0}
       /\ \A i \in DOMAIN tx_batch' : ~Oversized(tx_batch'[i].file)
       /\ \A req \in BagToSet(signing') : ~Oversized(req.chunks)]_vars

\* C19 witness: the user selected the file of 5262 bytes; the error was
\* shown and the batch is empty.
C19_Witness ==
    /\ filename = "big"
    /\ message = "too_large"
    /\ tx_batch = <<>>
    /\ signing = EmptyBag

\* C20 (as stated): whenever upload can run (the upload button is enabled
\* and is_dirty is false), tx_batch is non-empty and fully signed and the
\* final metadata transaction has been created.
C20_UploadOnlyComplete ==
    (dialogOpen /\ upload_button /\ ~is_dirty) =>
        /\ tx_batch # <<>>
        /\ tx_batch_signed_count = Len(tx_batch)
        /\ final_metadata_txn_created

\* This step is a sign_txns that appends its funding transaction.
FundingStep ==
    /\ tx_batch' # tx_batch
    /\ tx_batch' # <<>>
    /\ tx_batch'[Len(tx_batch')].kind = "funding"

\* C22 (as stated): every sign_txns that appends its funding transaction
\* starts from a fresh batch, so that afterwards the batch is that funding
\* transaction alone, the counters are 0 and chunks_total is the chunk count
\* of the file; a batch never holds two funding transactions, and the
\* chunks_total of a batch that is not empty is the chunk count of the
\* current file.
C22_FreshBatch ==
    [][/\ FundingStep =>
            /\ tx_batch' = <<FundingTxn(filename')>>
            /\ tx_batch_signed_count' = 0
            /\ chunks_processed' = 0
            /\ ~final_metadata_txn_created'
       /\ Fundings(tx_batch') <= 1
       /\ tx_batch' # <<>> => chunks_total' = ChunksOf(filename')]_vars

\* This step is a sign_done that was told the signing failed, or whose
\* getUploadTxn raised NotEnoughFunds.
ChainFails ==
    \/ sign_result' = "failure"
    \/ sign_result' = "success" /\ message' = "insufficient_funds_chunk"

\* C23: a sign_done that is told the signing failed, or whose getUploadTxn
\* raises NotEnoughFunds, ends its chain: the answered request is gone and no
\* request is submitted, tx_batch, chunks_processed and the final flag are
\* what they were, and the buttons and is_dirty are left alone; after a
\* reported failure tx_batch_signed_count is unchanged as well.
C23_ChainStops ==
    [][ChainFails =>
          /\ \E req \in BagToSet(signing) : signing' = signing (-) SetToBag({req})
          /\ tx_batch' = tx_batch
          /\ chunks_processed' = chunks_processed
          /\ final_metadata_txn_created' = final_metadata_txn_created
          /\ upload_button' = upload_button
          /\ sign_button' = sign_button
          /\ is_dirty' = is_dirty
          /\ sign_result' = "failure" =>
                tx_batch_signed_count' = tx_batch_signed_count]_vars

\* C23, witness: the signing of the first upload transaction of a two-chunk
\* file was reported as failed; the batch holds the funding transaction and
\* that upload transaction, nothing is being signed and upload is disabled.
C23_Witness ==
    /\ sign_result = "failure"
    /\ filename = "doc"
    /\ OneFundingThenUploads(tx_batch, "doc", 1)
    /\ tx_batch_signed_count = 1
    /\ signing = EmptyBag
    /\ ~upload_button

\* C24 (as stated): when funds suffice and every signing succeeds, a chain
\* started on a fresh batch ends in "Signing complete": every sign_done finds
\* the transaction tx_batch[chunks_processed] it builds on, and either
\* submits the next transaction or finds the whole batch signed and enables
\* upload; a batch holds at most chunks_total + 1 upload transactions and
\* chunks_total + 2 transactions.
C24_ChainCompletes ==
    [][/\ sign_result' = "success" =>
            /\ Building => chunks_processed < Len(tx_batch)
            /\ \/ BagCardinality(signing') = BagCardinality(signing)
               \/ /\ upload_button' /\ ~is_dirty'
                  /\ tx_batch_signed_count' = Len(tx_batch')
       /\ Len(Uploads(tx_batch')) <= chunks_total' + 1
       /\ Len(tx_batch') <= chunks_total' + 2]_vars

(***************************************************************************)
(* Properties of the coin selection page                                   *)
(***************************************************************************)

\* C17 (as stated): whenever the filters are passed to a worker, each is
\* None when its check box is unchecked and otherwise the amount its spin
\* box shows, in satoshis (the decimal times 100,000,000).
C17_FiltersInSatoshis ==
    [][consolidatorVars' # consolidatorVars =>
         /\ min_value_sats' =
              (IF filter_by_min_value_cb THEN Some(minimum_value_sb) ELSE NoValue)
         /\ max_value_sats' =
              (IF filter_by_max_value_cb THEN Some(maximum_value_sb) ELSE NoValue)]_vars

\* C17, the example of the claim: with the minimum filter checked at
\* 0.00000546 BCH and the maximum filter unchecked, (546, None) is passed.
C17_Example ==
    [][(/\ consolidatorVars' # consolidatorVars
        /\ filter_by_min_value_cb /\ minimum_value_sb = DefaultMinimum
        /\ ~filter_by_max_value_cb) =>
         /\ min_value_sats' = Some([bch |-> 0, sat |-> 546])
         /\ max_value_sats' = NoValue]_vars

====
